---------------------------- MODULE Spec2Model ----------------------------
(***************************************************************************)
(* Model of bm_rayMeshIntersect.py: the Moeller-Trumbore triangle test     *)
(* (mtIntersect) and the mesh ray cast (rayMeshIntersect).                 *)
(*                                                                         *)
(* Numbers.  The program computes in doubles; the model computes in exact  *)
(* rational arithmetic.  A world coordinate is an integer counting         *)
(* 1/Scale of a world unit, a vector is a triple of such integers, and a   *)
(* quotient (u, v, t, a hit point) is kept as numerator and denominator.   *)
(* Comparisons against eps and minDotProduct are done on the exact values, *)
(* written with integer division so that no product leaves 32 bits.        *)
(***************************************************************************)
EXTENDS Integers, Sequences, FiniteSets, TLC

\* Resolution of the coordinate grid: one world unit is Scale grid steps.
Scale == 1000

\* Number of casts issued in one behaviour.
MaxCasts == 3

\* eps = .0000001 = 1 / EpsDen
EpsDen == 10000000

\* minDotProduct = -.25 = MinDotNum / MinDotDen
MinDotNum == -1
MinDotDen == 4

----------------------------------------------------------------------------
\* Integer helpers

Abs(x) == IF x < 0 THEN -x ELSE x

Sgn(x) == IF x < 0 THEN -1 ELSE IF x > 0 THEN 1 ELSE 0

RECURSIVE Gcd(_, _)
Gcd(x, y) == IF y = 0 THEN Abs(x) ELSE Gcd(y, x % Abs(y))

\* Exact quotient of an integer by a positive divisor of it.
Quot(x, g) == IF x < 0 THEN -((-x) \div g) ELSE x \div g

----------------------------------------------------------------------------
\* MVector operators: p - q, p * q (dot product), p ^ q (cross product)

Sub(p, q) == <<p[1] - q[1], p[2] - q[2], p[3] - q[3]>>

Dot(p, q) == p[1] * q[1] + p[2] * q[2] + p[3] * q[3]

Cross(p, q) == <<p[2] * q[3] - p[3] * q[2],
                 p[3] * q[1] - p[1] * q[3],
                 p[1] * q[2] - p[2] * q[1]>>

\* A point with rational coordinates n[i] / d, in lowest terms with d > 0.
RatPoint(n, d) ==
    LET g == Gcd(Gcd(Gcd(n[1], n[2]), n[3]), d)
        s == Sgn(d)
    IN  [n |-> <<Quot(s * n[1], g), Quot(s * n[2], g), Quot(s * n[3], g)>>,
         d |-> Quot(s * d, g)]

\* p0 + rayVector * t for t = tn / td (td # 0)
PointOnRay(p0, rayVector, tn, td) ==
    LET g == Gcd(tn, td)
        rn == Quot(tn, g)
        rd == Quot(td, g)
    IN  RatPoint(<<p0[1] * rd + rayVector[1] * rn,
                   p0[2] * rd + rayVector[2] * rn,
                   p0[3] * rd + rayVector[3] * rn>>, rd)

----------------------------------------------------------------------------
\* Python values returned by the two functions

NoPoint == [n |-> <<0, 0, 0>>, d |-> 1]

False == [kind |-> "False", pt |-> NoPoint]

None == [kind |-> "None", pt |-> NoPoint]

\* The exception raised by 1.0 / a when a is zero.
ZeroDivisionError == [kind |-> "ZeroDivisionError", pt |-> NoPoint]

Hit(p) == [kind |-> "Point", pt |-> p]

\* `if hit:` -- False is falsy; an MVector defines neither __nonzero__ nor
\* __len__, so every MVector is truthy.
Truthy_zeroIsFalse(hit) == hit.kind = "Point" /\ hit.pt.n # <<0, 0, 0>>

Truthy(hit) == hit.kind = "Point"

----------------------------------------------------------------------------
\* mtIntersect

\* -1 * eps < a < eps, for a the triple product of three grid vectors
\* (a / Scale^3 in world units):  |a| * EpsDen < Scale^3.
NearZero_exact(a) == a = 0

NearZero(a) == Abs(a) <= (Scale * Scale * Scale - 1) \div EpsDen

\* x < 0.0 or x > 1.0 for x = f * n, f = 1.0 / a
OutOfUnit(n, a) == LET m == n * Sgn(a) IN m < 0 \/ m > Abs(a)

\* t > eps for t = f * n, f = 1.0 / a
AboveEps(n, a) == n * Sgn(a) > Abs(a) \div EpsDen

mtIntersect_textbook(p0, p1, v0, v1, v2) ==
    LET rayVector == Sub(p1, p0)
        edge1 == Sub(v1, v0)
        edge2 == Sub(v2, v0)
        h == Cross(rayVector, edge2)
        a == Dot(edge1, h)
        s == Sub(p0, v0)
        q == Cross(s, edge1)
    IN  IF NearZero(a) THEN False
        ELSE IF a = 0 THEN ZeroDivisionError
        ELSE IF OutOfUnit(Dot(s, h), a) THEN False
        ELSE IF OutOfUnit(Dot(rayVector, q), a)
                \/ OutOfUnit(Dot(s, h) + Dot(rayVector, q), a) THEN False
        ELSE IF AboveEps(Dot(edge2, q), a)
             THEN Hit(PointOnRay(p0, rayVector, Dot(edge2, q), a))
             ELSE False

mtIntersect(p0, p1, v0, v1, v2) ==
    LET rayVector == Sub(p1, p0)
        edge1 == Sub(v1, v0)
        edge2 == Sub(v2, v0)
        h == Cross(rayVector, edge2)
        a == Dot(edge1, h)
        s == Sub(p0, v0)
        q == Cross(s, edge1)
    IN  IF NearZero(a) THEN False
        ELSE IF a = 0 THEN ZeroDivisionError
        ELSE IF OutOfUnit(Dot(s, h), a) THEN False
        ELSE IF OutOfUnit(Dot(rayVector, q), a) THEN False
        ELSE IF AboveEps(Dot(edge2, q), a)
             THEN Hit(PointOnRay(p0, rayVector, Dot(edge2, q), a))
             ELSE False

----------------------------------------------------------------------------
\* Mesh Provider: a mesh is a sequence of faces, and a face is the vertex
\* list getTriangles returns for it (three grid points per triangle).

\* itMesh.getNormal: the unit normal of the face's winding.  The faces of the
\* meshes below are axis-aligned, so the normal is a signed axis vector.
FaceNormal(face) ==
    LET c == Cross(Sub(face[2], face[1]), Sub(face[3], face[1]))
    IN  <<Sgn(c[1]), Sgn(c[2]), Sgn(c[3])>>

\* (rayVector * nVector) > minDotProduct, the dot product being
\* Dot / Scale world units.
Culled_orEqual(rayVector, nVector) ==
    Dot(rayVector, nVector) * MinDotDen >= MinDotNum * Scale

Culled(rayVector, nVector) ==
    Dot(rayVector, nVector) * MinDotDen > MinDotNum * Scale

\* The inner while loop: [v0, v1, v2] for i = 0 .. numTris - 1.
FaceTriangles(thisFaceTriVerts) ==
    LET numTris == Len(thisFaceTriVerts) \div 3
    IN  [i \in 1..numTris |-> <<thisFaceTriVerts[3 * (i - 1) + 1],
                                thisFaceTriVerts[3 * (i - 1) + 2],
                                thisFaceTriVerts[3 * (i - 1) + 3]>>]

\* (rayOrigin - hitPoint).length(), kept as the squared length n / d.
HitDist(origin, hitPoint) ==
    LET e == <<origin[1] * hitPoint.d - hitPoint.n[1],
               origin[2] * hitPoint.d - hitPoint.n[2],
               origin[3] * hitPoint.d - hitPoint.n[3]>>
    IN  [n |-> Dot(e, e), d |-> hitPoint.d * hitPoint.d]

\* float("inf")
Inf == [n |-> 1, d |-> 0]

\* x < y on distances
DistLess(x, y) == x.n * y.d < y.n * x.d

----------------------------------------------------------------------------
\* Inputs

\* A triangle in the plane z = k, through (0,0), (0,8), (8,0), normal -z.
TriDown(k) == <<<<0, 0, k>>, <<0, 8, k>>, <<8, 0, k>>>>

\* A quad face in the plane z = k as two triangles, normal -z.
QuadDown(k) == <<<<0, 0, k>>, <<0, 8, k>>, <<8, 8, k>>,
                 <<0, 0, k>>, <<8, 8, k>>, <<8, 0, k>>>>

\* The same quad with the opposite winding, normal +z.
QuadUp(k) == <<<<0, 0, k>>, <<8, 0, k>>, <<8, 8, k>>,
               <<0, 0, k>>, <<8, 8, k>>, <<0, 8, k>>>>

\* A side wall in the plane x = 8, normal +x.
QuadSide == <<<<8, 0, 0>>, <<8, 8, 0>>, <<8, 8, 250>>,
              <<8, 0, 0>>, <<8, 8, 250>>, <<8, 0, 250>>>>

Meshes ==
    { <<TriDown(0), TriDown(250)>>,           \* two triangles along +z, near first
      <<TriDown(250), TriDown(0)>>,           \* the same, far first
      <<QuadDown(0), QuadSide, QuadUp(250)>>, \* a slab: entry, wall, exit
      <<TriDown(0), QuadDown(0)>>,            \* coplanar overlapping faces
      <<QuadUp(0)>> }

\* A ray is <<origin, through>>.
Rays ==
    { << <<2, 2, -250>>, <<2, 2, 0>> >>,      \* d = -0.25 exactly on a -z face
      << <<2, 2, -250>>, <<2, 2, -1>> >>,     \* d = -0.249
      << <<2, 5, -250>>, <<2, 5, 1>> >>,      \* d = -0.251
      << <<2, 2, 125>>, <<2, 2, 375>> >>,     \* origin between the planes
      << <<20, 20, -250>>, <<20, 20, 0>> >>,  \* passes beside the mesh
      << <<2, 2, 500>>, <<2, 2, 250>> >>,     \* travelling in -z
      << <<0, 2, -250>>, <<2, 2, 0>> >>,      \* slanted
      << <<0, 0, -250>>, <<0, 0, 0>> >> }     \* through the world origin

\* Triangles for the intersector alone.
MTTriangles ==
    { <<<<0, 0, 0>>, <<10, 0, 0>>, <<0, 10, 0>>>>,
      <<<<0, 0, 0>>, <<0, 10, 0>>, <<10, 0, 0>>>>,
      <<<<0, 0, 0>>, <<9, 0, 0>>, <<0, 11, 0>>>>,
      <<<<5, 5, 0>>, <<5, 5, 0>>, <<5, 5, 0>>>>,
      <<<<0, 0, 0>>, <<5, 0, 0>>, <<10, 0, 0>>>> }

MTOrigins ==
    { <<x, y, z>> : x \in {-5, 0, 5, 10, 15}, y \in {-5, 0, 5, 10, 15},
                    z \in {-2, -1, 0, 1} }

MTDirections ==
    { <<0, 0, 1>>, <<0, 0, 2>>, <<0, 0, -1>>, <<1, 0, 0>>, <<5, 0, 2>>,
      <<0, 0, EpsDen>> }

MTInputs ==
    { [p0 |-> o, p1 |-> <<o[1] + r[1], o[2] + r[2], o[3] + r[3]>>, tri |-> t] :
        o \in MTOrigins, r \in MTDirections, t \in MTTriangles }

NoVector == <<0, 0, 0>>

NoArgs == [p0 |-> NoVector, p1 |-> NoVector,
           tri |-> <<NoVector, NoVector, NoVector>>]

----------------------------------------------------------------------------
VARIABLES
    meshValid,        \* whether MItMeshPolygon(meshDag) resolves the handle
    mesh,             \* the faces of the mesh behind meshDag
    mesh0,            \* history: the mesh as it was at the start
    scene,            \* Scene Sink: positions of the marker spheres
    printed,          \* number of lines written by print
    log,              \* history: <<origin, through, result>> of finished casts
    pc,               \* position in rayMeshIntersect
    rayOrigin, rayDirection,
    faceIdx,          \* itMesh: index of the current face
    visited,          \* history: faces whose normal was read in this cast
    triVertLocs,
    triPos,           \* position of `for tri in triVertLocs`
    calls,            \* history: mtIntersect calls of this cast, [tri, ret]
    hitList,
    hitPos,           \* position of `for hitPoint in hitList`
    closestLen,
    closestHitPoint,
    closestIdx,       \* history: which hitList element closestHitPoint refers to
    result,           \* value returned by rayMeshIntersect
    mtArgs, mtRet, mtDone   \* a direct call of mtIntersect

shared == <<meshValid, mesh, mesh0, scene, printed, log>>

frame == <<pc, rayOrigin, rayDirection, faceIdx, visited, triVertLocs, triPos,
           calls, hitList, hitPos, closestLen, closestHitPoint, closestIdx,
           result>>

mt == <<mtArgs, mtRet, mtDone>>

vars == <<shared, frame, mt>>

\* No call of rayMeshIntersect is active.
NoFrame ==
    /\ pc = "idle"
    /\ rayOrigin = NoVector /\ rayDirection = NoVector
    /\ faceIdx = 0 /\ visited = 0
    /\ triVertLocs = <<>> /\ triPos = 0 /\ calls = <<>>
    /\ hitList = <<>> /\ hitPos = 0
    /\ closestLen = Inf /\ closestHitPoint = NoPoint /\ closestIdx = 0
    /\ result = None

NoScene ==
    /\ mesh0 = mesh /\ scene = <<>> /\ printed = 0 /\ log = <<>>

Init ==
    /\ meshValid \in BOOLEAN
    /\ mesh \in Meshes
    /\ NoScene
    /\ NoFrame
    /\ mtArgs = NoArgs /\ mtRet = False /\ mtDone = FALSE

----------------------------------------------------------------------------
\* rayMeshIntersect(meshDag, rayOrigin, rayDirection)

rayVector == Sub(rayDirection, rayOrigin)

\* The call, up to the end of the try statement.  A handle that does not
\* resolve makes MItMeshPolygon raise RuntimeError: print and return None.
Call_swallow(o, t) ==
    /\ pc = "idle"
    /\ Len(log) < MaxCasts
    /\ rayOrigin' = o
    /\ rayDirection' = t
    /\ printed' = IF meshValid THEN printed ELSE printed + 1
    /\ result' = None
    /\ pc' = "faces"
    /\ faceIdx' = 1
    /\ triVertLocs' = <<>>
    /\ UNCHANGED <<meshValid, mesh, mesh0, scene, log>>
    /\ UNCHANGED <<visited, triPos, calls, hitList, hitPos, closestLen,
                   closestHitPoint, closestIdx>>
    /\ UNCHANGED mt

Call(o, t) ==
    /\ pc = "idle"
    /\ Len(log) < MaxCasts
    /\ rayOrigin' = o
    /\ rayDirection' = t
    /\ IF meshValid
       THEN /\ pc' = "faces"
            /\ faceIdx' = 1
            /\ triVertLocs' = <<>>
            /\ UNCHANGED <<printed, result>>
       ELSE /\ printed' = printed + 1
            /\ result' = None
            /\ pc' = "done"
            /\ UNCHANGED <<faceIdx, triVertLocs>>
    /\ UNCHANGED <<meshValid, mesh, mesh0, scene, log>>
    /\ UNCHANGED <<visited, triPos, calls, hitList, hitPos, closestLen,
                   closestHitPoint, closestIdx>>
    /\ UNCHANGED mt

\* One pass of `while not itMesh.isDone()`.
VisitFace ==
    /\ pc = "faces"
    /\ faceIdx <= Len(mesh)
    /\ visited' = visited + 1
    /\ triVertLocs' = IF Culled(rayVector, FaceNormal(mesh[faceIdx]))
                      THEN triVertLocs
                      ELSE triVertLocs \o FaceTriangles(mesh[faceIdx])
    /\ faceIdx' = faceIdx + 1
    /\ UNCHANGED shared
    /\ UNCHANGED <<pc, rayOrigin, rayDirection, triPos, calls, hitList, hitPos,
                   closestLen, closestHitPoint, closestIdx, result>>
    /\ UNCHANGED mt

\* itMesh.isDone(): hitList = [] and the for loop starts.
FacesDone ==
    /\ pc = "faces"
    /\ faceIdx > Len(mesh)
    /\ hitList' = <<>>
    /\ triPos' = 1
    /\ pc' = "test"
    /\ UNCHANGED shared
    /\ UNCHANGED <<rayOrigin, rayDirection, faceIdx, visited, triVertLocs,
                   calls, hitPos, closestLen, closestHitPoint, closestIdx,
                   result>>
    /\ UNCHANGED mt

\* One pass of `for tri in triVertLocs`.
TestTriangle_firstHit ==
    /\ pc = "test"
    /\ triPos <= Len(triVertLocs)
    /\ LET tri == triVertLocs[triPos]
           hit == mtIntersect(rayOrigin, rayDirection, tri[1], tri[2], tri[3])
       IN  /\ calls' = Append(calls, [tri |-> tri, ret |-> hit])
           /\ hitList' = IF Truthy(hit) THEN Append(hitList, hit.pt) ELSE hitList
           /\ triPos' = IF Truthy(hit) THEN Len(triVertLocs) + 1 ELSE triPos + 1
           /\ UNCHANGED <<pc, result>>
    /\ UNCHANGED shared
    /\ UNCHANGED <<rayOrigin, rayDirection, faceIdx, visited, triVertLocs,
                   hitPos, closestLen, closestHitPoint, closestIdx>>
    /\ UNCHANGED mt

TestTriangle ==
    /\ pc = "test"
    /\ triPos <= Len(triVertLocs)
    /\ LET tri == triVertLocs[triPos]
           hit == mtIntersect(rayOrigin, rayDirection, tri[1], tri[2], tri[3])
       IN  /\ calls' = Append(calls, [tri |-> tri, ret |-> hit])
           /\ IF hit.kind = "ZeroDivisionError"
              THEN /\ result' = hit
                   /\ pc' = "done"
                   /\ UNCHANGED <<hitList, triPos>>
              ELSE /\ hitList' = IF Truthy(hit) THEN Append(hitList, hit.pt)
                                 ELSE hitList
                   /\ triPos' = triPos + 1
                   /\ UNCHANGED <<pc, result>>
    /\ UNCHANGED shared
    /\ UNCHANGED <<rayOrigin, rayDirection, faceIdx, visited, triVertLocs,
                   hitPos, closestLen, closestHitPoint, closestIdx>>
    /\ UNCHANGED mt

\* End of the for loop: closestLen = float("inf"); `if hitList:`.
TestsDone ==
    /\ pc = "test"
    /\ triPos > Len(triVertLocs)
    /\ closestLen' = Inf
    /\ IF hitList # <<>>
       THEN /\ closestHitPoint' = hitList[1]
            /\ closestIdx' = 1
            /\ hitPos' = 1
            /\ pc' = "reduce"
            /\ UNCHANGED result
       ELSE /\ result' = False
            /\ pc' = "done"
            /\ UNCHANGED <<closestHitPoint, closestIdx, hitPos>>
    /\ UNCHANGED shared
    /\ UNCHANGED <<rayOrigin, rayDirection, faceIdx, visited, triVertLocs,
                   triPos, calls, hitList>>
    /\ UNCHANGED mt

\* One pass of `for hitPoint in hitList`.  closestLen is not assigned.
Reduce ==
    /\ pc = "reduce"
    /\ hitPos <= Len(hitList)
    /\ LET hitPoint == hitList[hitPos]
           rayHitDist == HitDist(rayOrigin, hitPoint)
       IN  IF DistLess(rayHitDist, closestLen)
           THEN /\ closestHitPoint' = hitPoint
                /\ closestIdx' = hitPos
           ELSE UNCHANGED <<closestHitPoint, closestIdx>>
    /\ hitPos' = hitPos + 1
    /\ UNCHANGED shared
    /\ UNCHANGED <<pc, rayOrigin, rayDirection, faceIdx, visited, triVertLocs,
                   triPos, calls, hitList, closestLen, result>>
    /\ UNCHANGED mt

\* A face of the marker sphere at the grid point p.
MarkerFace(p) == <<p, <<p[1], p[2] + 1, p[3]>>, <<p[1] + 1, p[2], p[3]>>>>

\* polySphere, xform to closestHitPoint, return closestHitPoint.
ReturnHit_inMesh ==
    /\ pc = "reduce"
    /\ hitPos > Len(hitList)
    /\ scene' = Append(scene, closestHitPoint)
    /\ mesh' = Append(mesh, MarkerFace(closestHitPoint.n))
    /\ result' = Hit(closestHitPoint)
    /\ pc' = "done"
    /\ UNCHANGED <<meshValid, mesh0, printed, log>>
    /\ UNCHANGED <<rayOrigin, rayDirection, faceIdx, visited, triVertLocs,
                   triPos, calls, hitList, hitPos, closestLen, closestHitPoint,
                   closestIdx>>
    /\ UNCHANGED mt

ReturnHit ==
    /\ pc = "reduce"
    /\ hitPos > Len(hitList)
    /\ scene' = Append(scene, closestHitPoint)
    /\ result' = Hit(closestHitPoint)
    /\ pc' = "done"
    /\ UNCHANGED <<meshValid, mesh, mesh0, printed, log>>
    /\ UNCHANGED <<rayOrigin, rayDirection, faceIdx, visited, triVertLocs,
                   triPos, calls, hitList, hitPos, closestLen, closestHitPoint,
                   closestIdx>>
    /\ UNCHANGED mt

\* The caller receives the result; the frame is gone.
Exit ==
    /\ pc = "done"
    /\ log' = Append(log, [origin |-> rayOrigin, through |-> rayDirection,
                           result |-> result])
    /\ pc' = "idle"
    /\ rayOrigin' = NoVector /\ rayDirection' = NoVector
    /\ faceIdx' = 0 /\ visited' = 0
    /\ triVertLocs' = <<>> /\ triPos' = 0 /\ calls' = <<>>
    /\ hitList' = <<>> /\ hitPos' = 0
    /\ closestLen' = Inf /\ closestHitPoint' = NoPoint /\ closestIdx' = 0
    /\ result' = None
    /\ UNCHANGED <<meshValid, mesh, mesh0, scene, printed>>
    /\ UNCHANGED mt

Next ==
    \/ \E r \in Rays : Call(r[1], r[2])
    \/ VisitFace
    \/ FacesDone
    \/ TestTriangle
    \/ TestsDone
    \/ Reduce
    \/ ReturnHit
    \/ Exit

Spec == Init /\ [][Next]_vars

----------------------------------------------------------------------------
\* mtIntersect called on its own

InitMT ==
    /\ meshValid = TRUE
    /\ mesh = <<>>
    /\ NoScene
    /\ NoFrame
    /\ mtArgs \in MTInputs
    /\ mtRet = False
    /\ mtDone = FALSE

MTCall ==
    /\ ~mtDone
    /\ mtRet' = mtIntersect(mtArgs.p0, mtArgs.p1,
                            mtArgs.tri[1], mtArgs.tri[2], mtArgs.tri[3])
    /\ mtDone' = TRUE
    /\ UNCHANGED <<mtArgs, shared, frame>>

NextMT == MTCall

SpecMT == InitMT /\ [][NextMT]_vars

----------------------------------------------------------------------------
\* Vocabulary of the properties

\* d = rayVector . normal <= minDotProduct, in world units
Facing(rv, face) == Dot(rv, FaceNormal(face)) * MinDotDen <= MinDotNum * Scale

DotIsMin(rv, face) == Dot(rv, FaceNormal(face)) * MinDotDen = MinDotNum * Scale

RECURSIVE TrianglesOf(_)
TrianglesOf(faces) ==
    IF faces = <<>> THEN <<>>
    ELSE [i \in 1..(Len(Head(faces)) \div 3) |->
              SubSeq(Head(faces), 3 * i - 2, 3 * i)] \o TrianglesOf(Tail(faces))

\* The triangles of the facing faces among the first k faces, in order.
Candidates(k) ==
    TrianglesOf(SelectSeq(SubSeq(mesh, 1, k), LAMBDA f : Facing(rayVector, f)))

\* The cast has passed the face traversal on a resolved mesh.
Traversed == meshValid /\ pc \in {"test", "reduce", "done"}

\* x <= y on distances
DistLeq(x, y) == x.n * y.d <= y.n * x.d

HitIdx == 1..Len(hitList)

\* Indices of the collected hits at minimal distance from the origin.
Nearest ==
    { i \in HitIdx : \A j \in HitIdx :
        DistLeq(HitDist(rayOrigin, hitList[i]), HitDist(rayOrigin, hitList[j])) }

Returned == pc = "done" /\ result.kind = "Point"

----------------------------------------------------------------------------
\* C1: whenever the hit list is non-empty, the returned point is a collected
\* hit at minimal distance from the ray origin, whatever the face order.
C1_ReturnsClosest ==
    Returned => \E i \in Nearest : hitList[i] = result.pt

\* C2: when several collected hits lie at the minimal distance, the one
\* returned is the earliest of them; a later one never replaces it.
C2_FirstWinsTies ==
    (Returned /\ Cardinality(Nearest) > 1)
        => \A i \in Nearest : closestIdx <= i

\* C3: with an unresolvable mesh handle the cast returns None at once, which
\* is neither False nor a point; no face is visited, mtIntersect is not
\* called and no marker is placed.
C3_InvalidMesh ==
    ~meshValid =>
        /\ pc \in {"idle", "done"}
        /\ visited = 0 /\ calls = <<>> /\ triVertLocs = <<>> /\ scene = <<>>
        /\ pc = "done" => result = None
        /\ \A i \in 1..Len(log) : log[i].result = None
        /\ None # False /\ None.kind # "Point"

C3_Witness == ~meshValid /\ pc = "done" /\ printed = 2

\* C4: on a resolved mesh the cast returns False exactly when mtIntersect
\* returned False for every triangle of every facing face; otherwise it
\* returns a point that mtIntersect returned for one of them.
C4_NoHitIffAllAbsent ==
    (meshValid /\ pc = "done") =>
        /\ Len(calls) = Len(Candidates(Len(mesh)))
        /\ \A i \in 1..Len(calls) : calls[i].tri = Candidates(Len(mesh))[i]
        /\ result = False <=> \A i \in 1..Len(calls) : calls[i].ret = False
        /\ result # False =>
              /\ result.kind = "Point"
              /\ \E i \in 1..Len(calls) : calls[i].ret = result

C4_Witness ==
    /\ meshValid /\ pc = "done" /\ result.kind = "Point"
    /\ \E i \in 1..Len(calls) : calls[i].ret = False

\* C5: the candidate list is exactly the triangles of the faces with
\* d <= minDotProduct, in face order and triangulation order; a face with
\* d = minDotProduct is kept.
C5_CandidateList ==
    /\ (meshValid /\ pc = "faces") => triVertLocs = Candidates(faceIdx - 1)
    /\ Traversed => triVertLocs = Candidates(Len(mesh))

C5_Witness ==
    /\ Traversed
    /\ \E i \in 1..Len(mesh) : DotIsMin(rayVector, mesh[i])
    /\ \E i \in 1..Len(mesh) : ~Facing(rayVector, mesh[i])
    /\ Len(triVertLocs) = 2

\* C10: the traversal is complete before the first mtIntersect call, and
\* mtIntersect is then called once per candidate, in list order, every hit
\* being collected, also after the first one.
C10_AllTested ==
    /\ pc = "faces" => calls = <<>>
    /\ calls # <<>> => visited = Len(mesh)
    /\ Len(calls) <= Len(triVertLocs)
    /\ \A i \in 1..Len(calls) : calls[i].tri = triVertLocs[i]
    /\ pc = "test" => Len(calls) = triPos - 1
    /\ pc \in {"reduce", "done"} =>
          /\ Len(calls) = Len(triVertLocs)
          /\ LET hits == SelectSeq(calls, LAMBDA c : c.ret.kind = "Point")
             IN  /\ Len(hitList) = Len(hits)
                 /\ \A i \in 1..Len(hits) : hitList[i] = hits[i].ret.pt

C10_Witness ==
    /\ pc = "reduce"
    /\ Len(calls) = 3
    /\ calls[1].ret.kind = "Point"
    /\ Len(hitList) = 3

\* C8: casts with the same origin and through return the same result, and
\* the mesh is what it was before the first cast.
C8_Idempotent ==
    /\ mesh = mesh0
    /\ \A i, j \in 1..Len(log) :
          (log[i].origin = log[j].origin /\ log[i].through = log[j].through)
              => log[i].result = log[j].result

C8_Witness ==
    /\ scene # <<>>
    /\ \E i, j \in 1..Len(log) :
          /\ i + 1 < j
          /\ log[i].origin = log[j].origin /\ log[i].through = log[j].through
          /\ log[i].result.kind = "Point"
          /\ log[i + 1].result = False

----------------------------------------------------------------------------
\* Vocabulary of the intersector properties: the quantities of the direct
\* call, a = aN, u = uN / aN, v = vN / aN, t = tN / aN.

p0 == mtArgs.p0
v0 == mtArgs.tri[1]
edge1 == Sub(mtArgs.tri[2], mtArgs.tri[1])
edge2 == Sub(mtArgs.tri[3], mtArgs.tri[1])
mtRay == Sub(mtArgs.p1, mtArgs.p0)
aN == Dot(edge1, Cross(mtRay, edge2))
uN == Dot(Sub(p0, v0), Cross(mtRay, edge2))
vN == Dot(mtRay, Cross(Sub(p0, v0), edge1))
tN == Dot(edge2, Cross(Sub(p0, v0), edge1))

\* |a| < eps in world units: |aN| / Scale^3 < 1 / EpsDen
AbsBelowEps ==
    /\ Abs(aN) <= (Scale * Scale * Scale) \div EpsDen
    /\ Abs(aN) * EpsDen < Scale * Scale * Scale

\* 0 <= n / aN <= 1
InUnit(n) == IF aN > 0 THEN 0 <= n /\ n <= aN ELSE aN <= n /\ n <= 0

\* tN / aN > 1 / EpsDen
TAboveEps ==
    LET n == tN * Sgn(aN) IN n > 0 /\ Abs(aN) \div n < EpsDen

\* tN / aN = 1 / EpsDen
TEqualsEps == LET n == tN * Sgn(aN) IN n > 0 /\ Abs(aN) \div n = EpsDen
                                       /\ Abs(aN) % n = 0

Degenerate == mtArgs.tri[1] = mtArgs.tri[2] /\ mtArgs.tri[2] = mtArgs.tri[3]

\* The ray direction is perpendicular to the triangle's normal.
Parallel == Dot(mtRay, Cross(edge1, edge2)) = 0

\* The point pt = n / d lies in the plane of the triangle, inside or on its
\* boundary.
InsideTriangle(pt, tri) ==
    LET nrm == Cross(Sub(tri[2], tri[1]), Sub(tri[3], tri[1]))
        Rel(k) == <<pt.n[1] - pt.d * tri[k][1], pt.n[2] - pt.d * tri[k][2],
                    pt.n[3] - pt.d * tri[k][3]>>
    IN  /\ Dot(Rel(1), nrm) = 0
        /\ Dot(Cross(Sub(tri[2], tri[1]), Rel(1)), nrm) >= 0
        /\ Dot(Cross(Sub(tri[3], tri[2]), Rel(2)), nrm) >= 0
        /\ Dot(Cross(Sub(tri[1], tri[3]), Rel(3)), nrm) >= 0

\* pt = p0 + mtRay * (tN / aN), compared on the fraction in lowest terms
AtParameterT(pt) ==
    LET g == Gcd(tN, aN)
        rn == Quot(tN, g)
        rd == Quot(aN, g)
    IN  \A i \in 1..3 : (pt.n[i] - p0[i] * pt.d) * rd = mtRay[i] * rn * pt.d

\* C6: mtIntersect returns False whenever |a| < eps, in particular for a
\* triangle with v0 = v1 = v2 and for a ray parallel to the triangle's
\* plane, and it raises no error there.
C6_NearParallelAbsent ==
    mtDone =>
        /\ mtRet.kind # "ZeroDivisionError"
        /\ (AbsBelowEps \/ Degenerate \/ Parallel) => mtRet = False

C6_Witness == mtDone /\ AbsBelowEps /\ aN # 0 /\ InUnit(uN) /\ InUnit(vN)
              /\ tN * Sgn(aN) > 0

\* C7: every point mtIntersect returns lies inside or on the boundary of
\* the triangle it was tested against.
C7_HitInsideTriangle ==
    (mtDone /\ mtRet.kind = "Point") => InsideTriangle(mtRet.pt, mtArgs.tri)

\* C9: mtIntersect returns a point exactly when |a| >= eps, 0 <= u <= 1,
\* 0 <= v <= 1 and t > eps, whatever u + v is, and the point is
\* origin + (through - origin) * t.
C9_ReturnsPointIff ==
    mtDone =>
        /\ mtRet.kind \in {"Point", "False"}
        /\ mtRet.kind = "Point"
              <=> (~AbsBelowEps /\ InUnit(uN) /\ InUnit(vN) /\ TAboveEps)
        /\ mtRet.kind = "Point" => AtParameterT(mtRet.pt)

C9_Witness ==
    /\ mtDone /\ mtRet.kind = "Point"
    /\ uN = aN /\ vN = aN
    /\ Abs(aN) * EpsDen = Scale * Scale * Scale

\* The case t = eps: u and v are in range and no point is returned.
C9_TEqualsEpsRejected ==
    mtDone /\ mtRet = False /\ ~AbsBelowEps /\ InUnit(uN) /\ InUnit(vN)
           /\ TEqualsEps

=============================================================================
